---- MODULE Spec2Model ----
(***************************************************************************)
(* Model of codex-rs/linux-sandbox/src/linux_run_main.rs : run_main().     *)
(*                                                                         *)
(* run_main is a one-shot, single-threaded launcher: it takes a sandbox    *)
(* policy and a command, installs the seccomp network filter and the      *)
(* landlock filesystem rules on the current thread, falls back to bwrap   *)
(* when landlock fails, and finally calls execvp.                          *)
(*                                                                         *)
(* Strings are sequences of byte values, so that the String -> CString    *)
(* conversion (embedded NUL check, NUL terminator), the C-string read done *)
(* by execvp and PathBuf::to_string_lossy are modelled by what they do.    *)
(***************************************************************************)
EXTENDS Integers, Sequences, FiniteSets, TLC

(***************************************************************************)
(* Bounds of the model.                                                    *)
(***************************************************************************)
MaxCommandLen == 2
MaxRoots == 2

(***************************************************************************)
(* Bytes and byte strings.                                                 *)
(***************************************************************************)
NUL == 0

\* 0xFF can never appear in well-formed UTF-8.
InvalidUtf8Byte == 255

\* U+FFFD REPLACEMENT CHARACTER, encoded in UTF-8.
ReplacementChar == <<239, 191, 189>>

Range(s) == { s[i] : i \in 1..Len(s) }

RECURSIVE Flatten(_)
Flatten(ss) == IF ss = <<>> THEN <<>> ELSE Head(ss) \o Flatten(Tail(ss))

\* The string literals of run_main, as bytes.
StrUnshareAll == <<45, 45, 117, 110, 115, 104, 97, 114, 101, 45, 97, 108, 108>>
StrShareNet == <<45, 45, 115, 104, 97, 114, 101, 45, 110, 101, 116>>
StrRoBind == <<45, 45, 114, 111, 45, 98, 105, 110, 100>>
StrSlash == <<47>>
StrDev == <<45, 45, 100, 101, 118>>
StrSlashDev == <<47, 100, 101, 118>>
StrBind == <<45, 45, 98, 105, 110, 100>>
StrBwrap == <<98, 119, 114, 97, 112>>

(***************************************************************************)
(* std::ffi::CString                                                       *)
(***************************************************************************)
\* CString::new(s): Err when s has an interior NUL byte, else the bytes of s
\* followed by the NUL terminator.
CStringNew(s) ==
    IF NUL \in Range(s)
    THEN [ok |-> FALSE, val |-> <<>>]
    ELSE [ok |-> TRUE, val |-> s \o <<NUL>>]

\* What the callee of execvp reads through a `*const c_char`: the bytes up to,
\* and not including, the first NUL.
RECURSIVE CStrRead(_)
CStrRead(buf) ==
    IF buf = <<>> \/ Head(buf) = NUL THEN <<>>
    ELSE <<Head(buf)>> \o CStrRead(Tail(buf))

\* The argv execvp sees: the pointers before the terminating null pointer.
PtrsToArgv(cstrings) == [i \in 1..Len(cstrings) |-> CStrRead(cstrings[i])]

\* iter().skip(1)
SkipOne(v) == IF Len(v) = 0 THEN <<>> ELSE Tail(v)

(***************************************************************************)
(* The file system seen by std::fs::canonicalize.                          *)
(***************************************************************************)
PathWork == <<47, 119>>
PathLink == <<47, 108>>
PathMissing == <<47, 120>>
PathLinkNonUtf8 == <<47, 110>>
PathNonUtf8 == <<47, InvalidUtf8Byte>>

\* /w is a directory, /l a symlink to /w, /x does not exist, /n a symlink to
\* a directory whose name is the single byte 0xFF.
canonicalize(root) ==
    IF root = PathWork \/ root = PathLink THEN [ok |-> TRUE, val |-> PathWork]
    ELSE IF root = PathLinkNonUtf8 \/ root = PathNonUtf8
         THEN [ok |-> TRUE, val |-> PathNonUtf8]
    ELSE [ok |-> FALSE, val |-> <<>>]

\* Path::to_string_lossy: every invalid UTF-8 byte becomes U+FFFD.  The paths
\* of this model are ASCII bytes and 0xFF only.
to_string_lossy(p) ==
    Flatten([i \in 1..Len(p) |-> IF p[i] = InvalidUtf8Byte THEN ReplacementChar
                                 ELSE <<p[i]>>])

(***************************************************************************)
(* Inputs.                                                                 *)
(***************************************************************************)
\* The command is parsed from the argv of the process, whose strings end at
\* their first NUL: no element of it has an embedded NUL.
StrEcho == <<101, 99, 104, 111>>
StrHi == <<104, 105>>
StrLs == <<108, 115>>

ArgPool == {StrEcho, StrHi, StrLs}
RootPool == {PathWork, PathLink, PathMissing, PathLinkNonUtf8}

SeqsUpTo(S, n) == UNION { [1..k -> S] : k \in 0..n }

Commands == SeqsUpTo(ArgPool, MaxCommandLen)
RootLists == SeqsUpTo(RootPool, MaxRoots)

Policies == [full_network : BOOLEAN, full_disk_write : BOOLEAN, roots : RootLists]

\* SandboxPolicy queries (codex_core).
has_full_network_access(p) == p.full_network
has_full_disk_write_access(p) == p.full_disk_write
get_writable_roots_with_cwd(p) == p.roots

(***************************************************************************)
(* State.                                                                  *)
(***************************************************************************)
VARIABLES
    pc,               \* position of run_main
    sandbox_policy,   \* LandlockCommand.sandbox_policy
    command,          \* LandlockCommand.command
    path_has_bwrap,   \* environment: is bwrap on the search path
    writable_roots,   \* local of run_main
    BWRAP_AVAILABLE,  \* static OnceLock<bool>: <<>> when unset, <<b>> when set
    bwrap_available,  \* local of run_main
    use_bwrap,        \* local of run_main
    c_command,        \* local of run_main
    c_args,           \* local of run_main
    args,             \* local of the bwrap branch
    root_idx,         \* position of `for root in &writable_roots`
    net_result,       \* result of the seccomp installer call
    fs_result,        \* result of the landlock installer call
    events,           \* installer calls and exec attempts, in order
    execs,            \* the execvp calls made: file, argv, branch
    panic_msg,        \* message of the panic that ended the run
    threads           \* threads of the process, and the thread that made
                      \* each installer call and exec attempt, in order

vars == <<pc, sandbox_policy, command, path_has_bwrap, writable_roots,
          BWRAP_AVAILABLE, bwrap_available, use_bwrap, c_command, c_args,
          args, root_idx, net_result, fs_result, events, execs, panic_msg,
          threads>>

\* State after LandlockCommand::parse().
Init ==
    /\ pc = "check_command"
    /\ sandbox_policy \in Policies
    /\ command \in Commands
    /\ path_has_bwrap \in BOOLEAN
    /\ writable_roots = <<>>
    /\ BWRAP_AVAILABLE = <<>>
    /\ bwrap_available = FALSE
    /\ use_bwrap = FALSE
    /\ c_command = <<>>
    /\ c_args = <<>>
    /\ args = <<>>
    /\ root_idx = 1
    /\ net_result = "not_called"
    /\ fs_result = "not_called"
    /\ events = <<>>
    /\ execs = <<>>
    /\ panic_msg = ""
    /\ threads = [live |-> {"main"}, ops |-> <<>>]

\* The thread that runs run_main; run_main creates no other.
current_thread == "main"

\* An installer call or an exec attempt made by thread t.
OnThread(t) == [threads EXCEPT !.live = @ \cup {t}, !.ops = Append(@, t)]

inputs == <<sandbox_policy, command, path_has_bwrap>>

(***************************************************************************)
(* run_main, step by step.                                                 *)
(***************************************************************************)
\* if command.is_empty() { panic!(..) }
CheckCommand_NoReject ==
    /\ pc = "check_command"
    /\ pc' = "install_network"
    /\ UNCHANGED <<inputs, threads, writable_roots, BWRAP_AVAILABLE, bwrap_available,
                   use_bwrap, c_command, c_args, args, root_idx, net_result,
                   fs_result, events, execs, panic_msg>>

CheckCommand_SkipNetwork ==
    /\ pc = "check_command"
    /\ IF Len(command) = 0
       THEN /\ pc' = "panicked"
            /\ panic_msg' = "No command specified to execute."
       ELSE /\ pc' = "resolve_roots"
            /\ UNCHANGED panic_msg
    /\ UNCHANGED <<inputs, threads, writable_roots, BWRAP_AVAILABLE,
                   bwrap_available, use_bwrap, c_command, c_args, args,
                   root_idx, net_result, fs_result, events, execs>>

CheckCommand ==
    /\ pc = "check_command"
    /\ IF Len(command) = 0
       THEN /\ pc' = "panicked"
            /\ panic_msg' = "No command specified to execute."
       ELSE /\ pc' = "install_network"
            /\ UNCHANGED panic_msg
    /\ UNCHANGED <<inputs, threads, writable_roots, BWRAP_AVAILABLE, bwrap_available,
                   use_bwrap, c_command, c_args, args, root_idx, net_result,
                   fs_result, events, execs>>

\* Outcomes of the two installers of crate::landlock.
InstallerResults == {"Ok", "Err"}

\* if !sandbox_policy.has_full_network_access()
NeedsNetworkFilter_Always(p) == TRUE

NeedsNetworkFilter(p) == ~has_full_network_access(p)

\* if let Err(e) = install_network_seccomp_filter_on_current_thread() { panic!(..) }
InstallNetwork_IgnoreErr ==
    /\ pc = "install_network"
    /\ IF NeedsNetworkFilter(sandbox_policy)
       THEN \E r \in InstallerResults :
               /\ net_result' = r
               /\ events' = Append(events, "install_network")
               /\ threads' = OnThread(current_thread)
       ELSE UNCHANGED <<net_result, events, threads>>
    /\ pc' = "resolve_roots"
    /\ UNCHANGED <<inputs, writable_roots, BWRAP_AVAILABLE, bwrap_available,
                   use_bwrap, c_command, c_args, args, root_idx, fs_result,
                   execs, panic_msg>>

InstallNetwork ==
    /\ pc = "install_network"
    /\ IF NeedsNetworkFilter(sandbox_policy)
       THEN \E r \in InstallerResults :
               /\ net_result' = r
               /\ events' = Append(events, "install_network")
               /\ threads' = OnThread(current_thread)
               /\ IF r = "Err"
                  THEN /\ pc' = "panicked"
                       /\ panic_msg' = "error adding seccomp filters"
                  ELSE /\ pc' = "resolve_roots"
                       /\ UNCHANGED panic_msg
       ELSE /\ pc' = "resolve_roots"
            /\ UNCHANGED <<net_result, events, panic_msg, threads>>
    /\ UNCHANGED <<inputs, writable_roots, BWRAP_AVAILABLE, bwrap_available,
                   use_bwrap, c_command, c_args, args, root_idx, fs_result,
                   execs>>

\* let writable_roots = sandbox_policy.get_writable_roots_with_cwd(..)...collect();
ResolveRoots ==
    /\ pc = "resolve_roots"
    /\ writable_roots' = get_writable_roots_with_cwd(sandbox_policy)
    /\ pc' = "bwrap_available"
    /\ UNCHANGED <<inputs, threads, BWRAP_AVAILABLE, bwrap_available, use_bwrap,
                   c_command, c_args, args, root_idx, net_result, fs_result,
                   events, execs, panic_msg>>

\* find_executable_in_path("bwrap").is_some()
find_bwrap_in_path == path_has_bwrap

\* OnceLock::get_or_init: the closure runs only when the cell is empty.
get_or_init(cell, computed) == IF cell = <<>> THEN <<computed>> ELSE cell

\* let bwrap_available = *BWRAP_AVAILABLE.get_or_init(|| ..);
GetBwrapAvailable ==
    /\ pc = "bwrap_available"
    /\ BWRAP_AVAILABLE' = get_or_init(BWRAP_AVAILABLE, find_bwrap_in_path)
    /\ bwrap_available' = BWRAP_AVAILABLE'[1]
    /\ events' = IF BWRAP_AVAILABLE = <<>>
                 THEN Append(events, "find_executable_in_path")
                 ELSE events
    /\ pc' = "install_landlock"
    /\ UNCHANGED <<inputs, threads, writable_roots, use_bwrap, c_command,
                   c_args, args, root_idx, net_result, fs_result, execs,
                   panic_msg>>

\* if !sandbox_policy.has_full_disk_write_access()
NeedsLandlock_Always(p) == TRUE

NeedsLandlock(p) == ~has_full_disk_write_access(p)

\* if !bwrap_available { panic!(..) }
LandlockErrIsFatal_Never(available) == FALSE

LandlockErrIsFatal_Relookup(available) == ~find_bwrap_in_path

LandlockErrIsFatal(available) == ~available

\* if let Err(e) = install_filesystem_landlock_rules_on_current_thread(&writable_roots)
InstallLandlock_AlwaysWrap ==
    /\ pc = "install_landlock"
    /\ IF NeedsLandlock(sandbox_policy)
       THEN \E r \in InstallerResults :
               /\ fs_result' = r
               /\ events' = Append(events, "install_landlock")
               /\ threads' = OnThread(current_thread)
               /\ IF r = "Err"
                  THEN IF LandlockErrIsFatal(bwrap_available)
                       THEN /\ pc' = "panicked"
                            /\ panic_msg' = "error adding landlock and bwrap isn't avialable as a fallback"
                            /\ UNCHANGED use_bwrap
                       ELSE /\ use_bwrap' = TRUE
                            /\ pc' = "encode_command"
                            /\ UNCHANGED panic_msg
                  ELSE /\ use_bwrap' = bwrap_available
                       /\ pc' = "encode_command"
                       /\ UNCHANGED panic_msg
       ELSE /\ pc' = "encode_command"
            /\ UNCHANGED <<fs_result, events, use_bwrap, panic_msg, threads>>
    /\ UNCHANGED <<inputs, writable_roots, BWRAP_AVAILABLE, bwrap_available,
                   c_command, c_args, args, root_idx, net_result, execs>>

InstallLandlock_IgnoreErr ==
    /\ pc = "install_landlock"
    /\ IF NeedsLandlock(sandbox_policy)
       THEN \E r \in InstallerResults :
               /\ fs_result' = r
               /\ events' = Append(events, "install_landlock")
               /\ threads' = OnThread(current_thread)
               /\ IF r = "Err"
                  THEN /\ pc' = "encode_command"
                       /\ UNCHANGED <<use_bwrap, panic_msg>>
                  ELSE /\ pc' = "encode_command"
                       /\ UNCHANGED <<use_bwrap, panic_msg>>
       ELSE /\ pc' = "encode_command"
            /\ UNCHANGED <<fs_result, events, use_bwrap, panic_msg, threads>>
    /\ UNCHANGED <<inputs, writable_roots, BWRAP_AVAILABLE, bwrap_available,
                   c_command, c_args, args, root_idx, net_result, execs>>

InstallLandlock ==
    /\ pc = "install_landlock"
    /\ IF NeedsLandlock(sandbox_policy)
       THEN \E r \in InstallerResults :
               /\ fs_result' = r
               /\ events' = Append(events, "install_landlock")
               /\ threads' = OnThread(current_thread)
               /\ IF r = "Err"
                  THEN IF LandlockErrIsFatal(bwrap_available)
                       THEN /\ pc' = "panicked"
                            /\ panic_msg' = "error adding landlock and bwrap isn't avialable as a fallback"
                            /\ UNCHANGED use_bwrap
                       ELSE /\ use_bwrap' = TRUE
                            /\ pc' = "encode_command"
                            /\ UNCHANGED panic_msg
                  ELSE /\ pc' = "encode_command"
                       /\ UNCHANGED <<use_bwrap, panic_msg>>
       ELSE /\ pc' = "encode_command"
            /\ UNCHANGED <<fs_result, events, use_bwrap, panic_msg, threads>>
    /\ UNCHANGED <<inputs, writable_roots, BWRAP_AVAILABLE, bwrap_available,
                   c_command, c_args, args, root_idx, net_result, execs>>

\* if use_bwrap { .. } else { .. }
ExecBranch_AlwaysDirect(ub) == "exec_direct"

ExecBranch(ub) == IF ub THEN "bwrap_prefix" ELSE "exec_direct"

\* let c_command = CString::new(command[0].as_str()).expect(..);
\* let c_args = command.iter().skip(1).map(|arg| CString::new(..).expect(..)).collect();
EncodeCommand ==
    /\ pc = "encode_command"
    /\ IF Len(command) = 0
       THEN /\ pc' = "panicked"
            /\ panic_msg' = "index out of bounds"
            /\ UNCHANGED <<c_command, c_args>>
       ELSE LET first == CStringNew(command[1])
                rest == SkipOne(command)
                encoded == [i \in 1..Len(rest) |-> CStringNew(rest[i])]
            IN  IF ~first.ok
                THEN /\ pc' = "panicked"
                     /\ panic_msg' = "Failed to convert command to CString"
                     /\ UNCHANGED <<c_command, c_args>>
                ELSE IF \E i \in 1..Len(rest) : ~encoded[i].ok
                THEN /\ pc' = "panicked"
                     /\ panic_msg' = "Failed to convert arg to CString"
                     /\ UNCHANGED <<c_command, c_args>>
                ELSE /\ c_command' = first.val
                     /\ c_args' = [i \in 1..Len(rest) |-> encoded[i].val]
                     /\ pc' = ExecBranch(use_bwrap)
                     /\ UNCHANGED panic_msg
    /\ UNCHANGED <<inputs, threads, writable_roots, BWRAP_AVAILABLE, bwrap_available,
                   use_bwrap, args, root_idx, net_result, fs_result, events,
                   execs>>

\* let mut args = vec![CString::new("--unshare-all").unwrap(), ..];
BwrapPrefixArgs ==
    << CStringNew(StrUnshareAll).val, CStringNew(StrShareNet).val,
       CStringNew(StrRoBind).val, CStringNew(StrSlash).val,
       CStringNew(StrSlash).val, CStringNew(StrDev).val,
       CStringNew(StrSlashDev).val >>

BwrapPrefix ==
    /\ pc = "bwrap_prefix"
    /\ args' = BwrapPrefixArgs
    /\ root_idx' = 1
    /\ pc' = "bind_roots"
    /\ UNCHANGED <<inputs, threads, writable_roots, BWRAP_AVAILABLE, bwrap_available,
                   use_bwrap, c_command, c_args, net_result, fs_result, events,
                   execs, panic_msg>>

\* The three tokens pushed for one canonical root.
BindTokens(canonical_root) ==
    LET canonical_root_str == to_string_lossy(canonical_root)
    IN  << CStringNew(StrBind).val, CStringNew(canonical_root_str).val,
           CStringNew(canonical_root_str).val >>

\* One iteration of `for root in &writable_roots { match canonicalize(&root) .. }`
BindRoot_SkipOnErr ==
    /\ pc = "bind_roots"
    /\ root_idx <= Len(writable_roots)
    /\ LET c == canonicalize(writable_roots[root_idx])
       IN  args' = IF c.ok THEN args \o BindTokens(c.val) ELSE args
    /\ events' = Append(events, "canonicalize")
    /\ root_idx' = root_idx + 1
    /\ UNCHANGED <<pc, inputs, threads, writable_roots, BWRAP_AVAILABLE, bwrap_available,
                   use_bwrap, c_command, c_args, net_result, fs_result,
                   execs, panic_msg>>

BindRoot ==
    /\ pc = "bind_roots"
    /\ root_idx <= Len(writable_roots)
    /\ events' = Append(events, "canonicalize")
    /\ LET c == canonicalize(writable_roots[root_idx])
       IN  IF c.ok
           THEN /\ args' = args \o BindTokens(c.val)
                /\ root_idx' = root_idx + 1
                /\ UNCHANGED <<pc, panic_msg>>
           ELSE /\ pc' = "panicked"
                /\ panic_msg' = "error canonicalizing root"
                /\ UNCHANGED <<args, root_idx>>
    /\ UNCHANGED <<inputs, threads, writable_roots, BWRAP_AVAILABLE, bwrap_available,
                   use_bwrap, c_command, c_args, net_result, fs_result, execs>>

\* args.push(c_command); args.extend(c_args);
AppendCommand ==
    /\ pc = "bind_roots"
    /\ root_idx > Len(writable_roots)
    /\ args' = (args \o <<c_command>>) \o c_args
    /\ pc' = "exec_bwrap"
    /\ UNCHANGED <<inputs, threads, writable_roots, BWRAP_AVAILABLE, bwrap_available,
                   use_bwrap, c_command, c_args, root_idx, net_result,
                   fs_result, events, execs, panic_msg>>

\* execvp either replaces the process image or returns.
ExecOutcomes == {"replaced", "exec_returned"}

\* libc::execvp(bwrap.as_ptr(), args_ptrs.as_ptr());
ExecBwrap ==
    /\ pc = "exec_bwrap"
    /\ execs' = Append(execs, [file |-> CStrRead(CStringNew(StrBwrap).val),
                               argv |-> PtrsToArgv(args),
                               wrapped |-> TRUE])
    /\ events' = Append(events, "execvp")
    /\ threads' = OnThread(current_thread)
    /\ \E o \in ExecOutcomes : pc' = o
    /\ UNCHANGED <<inputs, writable_roots, BWRAP_AVAILABLE, bwrap_available,
                   use_bwrap, c_command, c_args, args, root_idx, net_result,
                   fs_result, panic_msg>>

\* The pointers handed to execvp on the direct branch.
DirectArgs(cmd, rest) == rest

\* libc::execvp(c_command.as_ptr(), c_args_ptrs.as_ptr());
ExecDirect_OnWorker ==
    /\ pc = "exec_direct"
    /\ execs' = Append(execs, [file |-> CStrRead(c_command),
                               argv |-> PtrsToArgv(DirectArgs(c_command, c_args)),
                               wrapped |-> FALSE])
    /\ events' = Append(events, "execvp")
    /\ threads' = OnThread("worker")
    /\ \E o \in ExecOutcomes : pc' = o
    /\ UNCHANGED <<inputs, writable_roots, BWRAP_AVAILABLE, bwrap_available,
                   use_bwrap, c_command, c_args, args, root_idx, net_result,
                   fs_result, panic_msg>>

ExecDirect ==
    /\ pc = "exec_direct"
    /\ execs' = Append(execs, [file |-> CStrRead(c_command),
                               argv |-> PtrsToArgv(DirectArgs(c_command, c_args)),
                               wrapped |-> FALSE])
    /\ events' = Append(events, "execvp")
    /\ threads' = OnThread(current_thread)
    /\ \E o \in ExecOutcomes : pc' = o
    /\ UNCHANGED <<inputs, writable_roots, BWRAP_AVAILABLE, bwrap_available,
                   use_bwrap, c_command, c_args, args, root_idx, net_result,
                   fs_result, panic_msg>>

\* If execvp returns, there was an error: panic!("Failed to execvp ..")
ExecReturned_FallbackDirect ==
    /\ pc = "exec_returned"
    /\ IF execs[Len(execs)].wrapped
       THEN /\ pc' = "exec_direct"
            /\ UNCHANGED panic_msg
       ELSE /\ pc' = "panicked"
            /\ panic_msg' = "Failed to execvp"
    /\ UNCHANGED <<inputs, threads, writable_roots, BWRAP_AVAILABLE,
                   bwrap_available, use_bwrap, c_command, c_args, args,
                   root_idx, net_result, fs_result, events, execs>>

ExecReturned_ReturnsNormally ==
    /\ pc = "exec_returned"
    /\ pc' = "returned"
    /\ UNCHANGED <<inputs, threads, writable_roots, BWRAP_AVAILABLE,
                   bwrap_available, use_bwrap, c_command, c_args, args,
                   root_idx, net_result, fs_result, events, execs, panic_msg>>

ExecReturned ==
    /\ pc = "exec_returned"
    /\ pc' = "panicked"
    /\ panic_msg' = "Failed to execvp"
    /\ UNCHANGED <<inputs, threads, writable_roots, BWRAP_AVAILABLE, bwrap_available,
                   use_bwrap, c_command, c_args, args, root_idx, net_result,
                   fs_result, events, execs>>

Next ==
    \/ CheckCommand
    \/ InstallNetwork
    \/ ResolveRoots
    \/ GetBwrapAvailable
    \/ InstallLandlock
    \/ EncodeCommand
    \/ BwrapPrefix
    \/ BindRoot
    \/ AppendCommand
    \/ ExecBwrap
    \/ ExecDirect
    \/ ExecReturned

Spec == Init /\ [][Next]_vars

\* run_main runs on a thread that keeps running, and none of its steps
\* blocks: a step that can be taken is taken.
FairSpec == Spec /\ WF_vars(Next)

\* The environment: while run_main runs, bwrap can appear on, or disappear
\* from, the directories of the search path.
PathChanges ==
    /\ pc \notin {"replaced", "panicked"}
    /\ path_has_bwrap' = ~path_has_bwrap
    /\ UNCHANGED <<pc, sandbox_policy, command, threads, writable_roots,
                   BWRAP_AVAILABLE, bwrap_available, use_bwrap, c_command,
                   c_args, args, root_idx, net_result, fs_result, events,
                   execs, panic_msg>>

NextEnv ==
    \/ Next
    \/ PathChanges

SpecEnv == Init /\ [][NextEnv]_vars

TypeOK ==
    /\ pc \in {"check_command", "install_network", "resolve_roots",
               "bwrap_available", "install_landlock", "encode_command",
               "bwrap_prefix", "bind_roots", "exec_bwrap", "exec_direct",
               "exec_returned", "replaced", "panicked"}
    /\ net_result \in {"not_called", "Ok", "Err"}
    /\ fs_result \in {"not_called", "Ok", "Err"}
    /\ use_bwrap \in BOOLEAN
    /\ Len(execs) <= 1

(***************************************************************************)
(* Vocabulary of the properties.                                           *)
(***************************************************************************)
HasEmbeddedNul(cmd) == \E i \in 1..Len(cmd) : NUL \in Range(cmd[i])

HasBadRoot(roots) == \E i \in 1..Len(roots) : ~canonicalize(roots[i]).ok

NoInstallerCalled == net_result = "not_called" /\ fs_result = "not_called"

NoExecAttempt == execs = <<>> /\ pc \notin {"replaced", "exec_returned"}

\* The wrapper argv as the specification states it: seven fixed tokens, one
\* bind group per root with the canonical path as source and destination,
\* then the command.
ExpectedPrefix ==
    <<StrUnshareAll, StrShareNet, StrRoBind, StrSlash, StrSlash, StrDev,
      StrSlashDev>>

ExpectedBinds(roots) ==
    Flatten([i \in 1..Len(roots) |->
                <<StrBind, canonicalize(roots[i]).val, canonicalize(roots[i]).val>>])

ExpectedWrapperArgv(roots, cmd) == (ExpectedPrefix \o ExpectedBinds(roots)) \o cmd

\* The shape of a wrapper argv: prefix, three tokens per root each group
\* opened by --bind with equal source and destination, then the command.
IsWrapperArgv(argv, roots, cmd) ==
    /\ Len(argv) = 7 + 3 * Len(roots) + Len(cmd)
    /\ SubSeq(argv, 1, 7) = ExpectedPrefix
    /\ \A i \in 1..Len(roots) :
          /\ argv[7 + 3 * (i - 1) + 1] = StrBind
          /\ argv[7 + 3 * (i - 1) + 2] = argv[7 + 3 * (i - 1) + 3]
    /\ SubSeq(argv, 7 + 3 * Len(roots) + 1, Len(argv)) = cmd

(***************************************************************************)
(* C1: on the direct branch every exec attempt names command[0] as the     *)
(* program and passes the whole command, in order, as argv.                *)
(***************************************************************************)
C1_DirectArgvIsWholeCommand ==
    \A i \in 1..Len(execs) :
        ~execs[i].wrapped =>
            /\ execs[i].file = command[1]
            /\ execs[i].argv = command

(***************************************************************************)
(* C3: when the landlock installation failed and bwrap is on the search    *)
(* path, every exec attempt is the bwrap one, with the wrapper argv, there *)
(* is at most one, and a run without input error that ended made exactly   *)
(* one.                                                                    *)
(***************************************************************************)
C3_FallbackExecsBwrap ==
    (fs_result = "Err" /\ path_has_bwrap) =>
        /\ Len(execs) <= 1
        /\ \A i \in 1..Len(execs) :
              /\ execs[i].wrapped
              /\ execs[i].file = StrBwrap
              /\ IsWrapperArgv(execs[i].argv, sandbox_policy.roots, command)
        /\ (/\ pc \in {"replaced", "panicked"}
            /\ ~HasEmbeddedNul(command)
            /\ ~HasBadRoot(sandbox_policy.roots)) => Len(execs) = 1

C3_Witness ==
    /\ fs_result = "Err"
    /\ path_has_bwrap
    /\ pc = "replaced"
    /\ Len(execs) = 1
    /\ execs[1].wrapped
    /\ Len(sandbox_policy.roots) = 2
    /\ Len(command) = 2

(***************************************************************************)
(* C4: the argv of the bwrap exec is exactly the seven fixed tokens, then  *)
(* --bind canon(root) canon(root) for each root in order, then the         *)
(* command.                                                                *)
(***************************************************************************)
C4_WrapperArgvExact ==
    \A i \in 1..Len(execs) :
        execs[i].wrapped =>
            execs[i].argv = ExpectedWrapperArgv(sandbox_policy.roots, command)

(***************************************************************************)
(* C5: when the landlock installation failed and bwrap is not on the       *)
(* search path, the run has panicked and made no exec attempt.             *)
(***************************************************************************)
C5_NoFallbackAborts ==
    (fs_result = "Err" /\ ~path_has_bwrap) =>
        /\ pc = "panicked"
        /\ NoExecAttempt
        /\ ~use_bwrap

C5_Witness ==
    /\ fs_result = "Err"
    /\ ~path_has_bwrap
    /\ pc = "panicked"
    /\ panic_msg = "error adding landlock and bwrap isn't avialable as a fallback"
    /\ command # <<>>

(***************************************************************************)
(* C6: when the seccomp installation failed the run has panicked: the      *)
(* landlock installer was not called, the bwrap branch is not taken and    *)
(* there is no exec attempt.                                               *)
(***************************************************************************)
C6_NetworkFailureIsFatal ==
    net_result = "Err" =>
        /\ pc = "panicked"
        /\ fs_result = "not_called"
        /\ ~use_bwrap
        /\ NoExecAttempt

C6_Witness ==
    /\ net_result = "Err"
    /\ pc = "panicked"
    /\ panic_msg = "error adding seccomp filters"
    /\ ~has_full_disk_write_access(sandbox_policy)
    /\ path_has_bwrap

(***************************************************************************)
(* C7: under a policy with full disk-write access the landlock installer   *)
(* is never called, the bwrap branch is never taken, and every exec        *)
(* attempt is the direct one, of command[0].                               *)
(***************************************************************************)
C7_FullDiskWriteIsDirect ==
    has_full_disk_write_access(sandbox_policy) =>
        /\ fs_result = "not_called"
        /\ ~use_bwrap
        /\ pc \notin {"bwrap_prefix", "bind_roots", "exec_bwrap"}
        /\ \A i \in 1..Len(execs) :
              /\ ~execs[i].wrapped
              /\ execs[i].file = command[1]

C7_Witness ==
    /\ has_full_disk_write_access(sandbox_policy)
    /\ path_has_bwrap
    /\ pc = "replaced"
    /\ Len(execs) = 1
    /\ sandbox_policy.roots # <<>>

(***************************************************************************)
(* C8: under a policy with full network access the seccomp installer is    *)
(* never called, on any path.                                              *)
(***************************************************************************)
C8_FullNetworkNoFilter ==
    has_full_network_access(sandbox_policy) =>
        /\ net_result = "not_called"
        /\ \A i \in 1..Len(events) : events[i] # "install_network"

C8_Witness ==
    /\ has_full_network_access(sandbox_policy)
    /\ ~has_full_disk_write_access(sandbox_policy)
    /\ use_bwrap
    /\ pc = "replaced"

(***************************************************************************)
(* C9: an empty command is rejected at the first step: no installer is     *)
(* called and no exec attempt is made.                                     *)
(***************************************************************************)
C9_EmptyCommandRejected ==
    command = <<>> =>
        /\ pc \in {"check_command", "panicked"}
        /\ NoInstallerCalled
        /\ events = <<>>
        /\ NoExecAttempt

C9_Witness ==
    /\ command = <<>>
    /\ pc = "panicked"
    /\ panic_msg = "No command specified to execute."
    /\ ~has_full_network_access(sandbox_policy)
    /\ ~has_full_disk_write_access(sandbox_policy)

(***************************************************************************)
(* C10 as stated: when some writable root cannot be canonicalized, no exec *)
(* attempt is ever made.                                                   *)
(***************************************************************************)
C10_BadRootNeverExecs ==
    HasBadRoot(sandbox_policy.roots) => NoExecAttempt

(***************************************************************************)
(* C10 amended: on the bwrap branch, when some writable root, at any       *)
(* position, cannot be canonicalized, the run panics before bwrap is       *)
(* executed and no exec attempt is made.                                   *)
(***************************************************************************)
C10_BadRootAbortsFallback ==
    (use_bwrap /\ HasBadRoot(sandbox_policy.roots)) =>
        /\ NoExecAttempt
        /\ pc \in {"encode_command", "bwrap_prefix", "bind_roots", "panicked"}

C10_Witness ==
    /\ use_bwrap
    /\ pc = "panicked"
    /\ panic_msg = "error canonicalizing root"
    /\ root_idx = 2
    /\ Len(args) = 10

(***************************************************************************)
(* C11: when the landlock installation succeeded, the bwrap branch is      *)
(* never taken, no root is canonicalized, and every exec attempt is the    *)
(* direct one, of command[0], whether or not bwrap is on the search path.  *)
(***************************************************************************)
C11_LandlockOkIsDirect ==
    fs_result = "Ok" =>
        /\ ~use_bwrap
        /\ pc \notin {"bwrap_prefix", "bind_roots", "exec_bwrap"}
        /\ args = <<>>
        /\ \A i \in 1..Len(events) : events[i] # "canonicalize"
        /\ \A i \in 1..Len(execs) :
              /\ ~execs[i].wrapped
              /\ execs[i].file = command[1]
              /\ execs[i].file # StrBwrap

C11_Witness ==
    /\ fs_result = "Ok"
    /\ path_has_bwrap
    /\ pc = "replaced"
    /\ Len(execs) = 1
    /\ HasBadRoot(writable_roots)

(***************************************************************************)
(* C12: a run makes at most one exec attempt; after the attempt the run is *)
(* replaced, or execvp has returned and the only step left is the panic,   *)
(* which makes no further attempt.                                         *)
(***************************************************************************)
C12_SingleExecAttempt ==
    /\ [](/\ Len(execs) <= 1
          /\ execs # <<>> => pc \in {"replaced", "exec_returned", "panicked"}
          /\ pc = "exec_returned" => Len(execs) = 1)
    /\ [][pc = "exec_returned" =>
            /\ pc' = "panicked"
            /\ panic_msg' = "Failed to execvp"
            /\ execs' = execs
            /\ events' = events]_vars

C12_Witness ==
    /\ pc = "panicked"
    /\ panic_msg = "Failed to execvp"
    /\ Len(execs) = 1
    /\ execs[1].wrapped
    /\ execs[1].file = StrBwrap

(***************************************************************************)
(* C13: every run ends, and stays, in one of the two terminal states:      *)
(* process replaced, or panicked; no step is ever taken from a terminal    *)
(* state.                                                                  *)
(***************************************************************************)
C13_RunTerminates ==
    /\ <>[](pc \in {"replaced", "panicked"})
    /\ [][pc \notin {"replaced", "panicked"}]_vars

C13_Witness ==
    /\ pc = "panicked"
    /\ panic_msg = "Failed to execvp"
    /\ ~use_bwrap
    /\ net_result = "Ok"
    /\ fs_result = "Ok"

(***************************************************************************)
(* C14: the seccomp installation, when the policy requires it, has         *)
(* returned Ok before the landlock installer is called; every installer    *)
(* call comes before the exec attempt and nothing is called after it; each *)
(* installer is called at most once.                                       *)
(***************************************************************************)
Installers == {"install_network", "install_landlock"}

Occurrences(e) == Cardinality({i \in 1..Len(events) : events[i] = e})

C14_EnforcementOrder ==
    /\ \A e \in Installers : Occurrences(e) <= 1
    /\ \A i \in 1..Len(events) : \A j \in 1..Len(events) :
          i < j =>
             /\ events[i] # "execvp"
             /\ ~(events[i] = "install_landlock" /\ events[j] = "install_network")
    /\ (fs_result # "not_called" /\ ~has_full_network_access(sandbox_policy)) =>
          /\ net_result = "Ok"
          /\ events[1] = "install_network"
    /\ (execs # <<>>) => events[Len(events)] = "execvp"
    /\ Occurrences("install_network") = (IF net_result = "not_called" THEN 0 ELSE 1)
    /\ Occurrences("install_landlock") = (IF fs_result = "not_called" THEN 0 ELSE 1)

C14_Witness ==
    /\ pc = "replaced"
    /\ events = <<"install_network", "find_executable_in_path",
                  "install_landlock", "execvp">>

(***************************************************************************)
(* C15: the process has a single thread, and the seccomp installation, the *)
(* landlock installation and the exec attempt are all made by it: the      *)
(* thread that execs is the thread the enforcement was installed on.       *)
(***************************************************************************)
C15_SingleThread ==
    /\ threads.live = {current_thread}
    /\ \A i \in 1..Len(threads.ops) : threads.ops[i] = current_thread
    /\ Len(threads.ops) =
          Occurrences("install_network") + Occurrences("install_landlock")
             + Occurrences("execvp")

C15_Witness ==
    /\ pc = "replaced"
    /\ net_result = "Ok"
    /\ fs_result = "Ok"
    /\ threads.ops = <<"main", "main", "main">>

(***************************************************************************)
(* C16: BWRAP_AVAILABLE is computed at most once, from the search path as  *)
(* it is at that moment; once set it never changes, whatever happens to    *)
(* the search path afterwards, and the local read and the fallback         *)
(* decision use that value.                                                *)
(***************************************************************************)
C16_AvailabilityComputedOnce ==
    /\ [][/\ BWRAP_AVAILABLE # <<>> => BWRAP_AVAILABLE' = BWRAP_AVAILABLE
          /\ (BWRAP_AVAILABLE = <<>> /\ BWRAP_AVAILABLE' # <<>>) =>
                BWRAP_AVAILABLE' = <<path_has_bwrap>>]_vars
    /\ [](/\ Occurrences("find_executable_in_path") <= 1
          /\ BWRAP_AVAILABLE # <<>> => bwrap_available = BWRAP_AVAILABLE[1]
          /\ fs_result = "Err" =>
                /\ BWRAP_AVAILABLE # <<>>
                /\ use_bwrap = BWRAP_AVAILABLE[1]
                /\ BWRAP_AVAILABLE[1] \/ pc = "panicked")

C16_Witness ==
    /\ BWRAP_AVAILABLE = <<TRUE>>
    /\ ~path_has_bwrap
    /\ fs_result = "Err"
    /\ use_bwrap
    /\ pc = "replaced"

(***************************************************************************)
(* C17: whenever an exec attempt has been made, every restriction the      *)
(* policy demands was in place for it: with network access not full the    *)
(* seccomp installation returned Ok before it, also on the bwrap branch;   *)
(* with disk-write access not full the landlock installation returned Ok,  *)
(* or the attempt is the one of bwrap with the wrapper argv.               *)
(***************************************************************************)
C17_Confinement ==
    \A i \in 1..Len(execs) :
        /\ ~has_full_network_access(sandbox_policy) =>
              /\ net_result = "Ok"
              /\ \E j \in 1..Len(events) : \E k \in 1..Len(events) :
                    j < k /\ events[j] = "install_network" /\ events[k] = "execvp"
        /\ ~has_full_disk_write_access(sandbox_policy) =>
              \/ /\ fs_result = "Ok"
                 /\ ~execs[i].wrapped
              \/ /\ fs_result = "Err"
                 /\ execs[i].wrapped
                 /\ execs[i].file = StrBwrap
                 /\ IsWrapperArgv(execs[i].argv, sandbox_policy.roots, command)

C17_Witness ==
    /\ pc = "exec_returned"
    /\ Len(execs) = 1
    /\ execs[1].wrapped
    /\ ~has_full_network_access(sandbox_policy)
    /\ net_result = "Ok"
    /\ fs_result = "Err"
    /\ Len(sandbox_policy.roots) = 1

====
